---- MODULE Spec2Model ----
(***************************************************************************)
(* PConverter: crop resolver (CanvasEditor.tsx), undo history (App.tsx),   *)
(* export pipeline and adaptive encoder (imageUtils.ts).                   *)
(*                                                                         *)
(* JavaScript numbers are modelled as exact rationals [n, d] (d > 0, in    *)
(* lowest terms); rotation is a multiple of 90 degrees (the only values    *)
(* the toolbar produces), so cos and sin are 0, 1 or -1.                   *)
(***************************************************************************)
EXTENDS Integers, Sequences, FiniteSets, TLC

(***************************************************************************)
(* Numbers                                                                 *)
(***************************************************************************)
Abs(i) == IF i < 0 THEN -i ELSE i

\* Euclid's algorithm; the remainder is bound to a value before the call
RECURSIVE Gcd(_, _)
Gcd(a, b) ==
    IF b = 0 THEN a ELSE CHOOSE g \in { Gcd(b, r) : r \in {a % b} } : TRUE

\* the rational n/d in lowest terms with a positive denominator
Rat(n, d) ==
    LET s == IF d < 0 THEN -1 ELSE 1
        g == Gcd(Abs(n), Abs(d))
    IN  [n |-> (s * n) \div g, d |-> (s * d) \div g]

I(k) == [n |-> k, d |-> 1]

RAdd(a, b) == Rat(a.n * b.d + b.n * a.d, a.d * b.d)
RSub(a, b) == Rat(a.n * b.d - b.n * a.d, a.d * b.d)
RMul(a, b) == Rat(a.n * b.n, a.d * b.d)
RDiv(a, b) == Rat(a.n * b.d, a.d * b.n)
RNeg(a)    == [n |-> -a.n, d |-> a.d]
RLe(a, b)  == a.n * b.d <= b.n * a.d
RLt(a, b)  == a.n * b.d < b.n * a.d
RMin(a, b) == IF RLe(a, b) THEN a ELSE b
RMax(a, b) == IF RLe(a, b) THEN b ELSE a

\* Math.floor, Math.ceil, Math.round (halves round up) as integers
RFloor(a) == a.n \div a.d
RCeil(a)  == -((-a.n) \div a.d)
RRound(a) == (2 * a.n + a.d) \div (2 * a.d)

(***************************************************************************)
(* Values                                                                  *)
(***************************************************************************)
\* null / undefined in place of a number or an object, of a handle name,
\* and of an image id
Null == [null |-> TRUE]
NoHandle == "none"
NoImage == "none"

\* CanvasEditor.tsx:242  const minSize = 20
minSize == 20

Rect(x, y, w, h) == [x |-> x, y |-> y, width |-> w, height |-> h]

\* the crop rectangle covering the whole image
FullRect(image) == Rect(I(0), I(0), I(image.width), I(image.height))

\* Math.cos / Math.sin of an angle in degrees that is a multiple of 90
CosDeg(deg) ==
    LET a == deg % 360 IN IF a = 0 THEN 1 ELSE IF a = 180 THEN -1 ELSE 0
SinDeg(deg) ==
    LET a == deg % 360 IN IF a = 90 THEN 1 ELSE IF a = 270 THEN -1 ELSE 0

(***************************************************************************)
(* Geometry kernel: screen-space delta -> image-space delta                *)
(* CanvasEditor.tsx handleMouseMove, lines 223-239                         *)
(***************************************************************************)
\* a variant that turns the delta the same way as the view instead of back
ScreenToImageDeltaSameTurn(dx, dy, es, vs) ==
    LET rad   == es.rotation
        rotDx0 == dx * CosDeg(rad) - dy * SinDeg(rad)
        rotDy0 == dx * SinDeg(rad) + dy * CosDeg(rad)
        rotDx == IF es.flipX THEN -rotDx0 ELSE rotDx0
        rotDy == IF es.flipY THEN -rotDy0 ELSE rotDy0
        currentScale == RMul(vs.fitScale, vs.userScale)
    IN  [x |-> RDiv(I(rotDx), currentScale), y |-> RDiv(I(rotDy), currentScale)]

ScreenToImageDelta(dx, dy, es, vs) ==
    LET rad   == -es.rotation
        rotDx0 == dx * CosDeg(rad) - dy * SinDeg(rad)
        rotDy0 == dx * SinDeg(rad) + dy * CosDeg(rad)
        rotDx == IF es.flipX THEN -rotDx0 ELSE rotDx0
        rotDy == IF es.flipY THEN -rotDy0 ELSE rotDy0
        currentScale == RMul(vs.fitScale, vs.userScale)
    IN  [x |-> RDiv(I(rotDx), currentScale), y |-> RDiv(I(rotDy), currentScale)]

\* the CSS transform of the image layer (CanvasEditor.tsx line 419),
\* scale(fitScale * userScale) rotate(rotation deg) scale(+-1, +-1), applied
\* to an image-space delta d: the flip acts first, then the turn, then the
\* scale
ViewTransform(d, es, vs) ==
    LET fx == IF es.flipX THEN RNeg(d.x) ELSE d.x
        fy == IF es.flipY THEN RNeg(d.y) ELSE d.y
        c  == I(CosDeg(es.rotation))
        sn == I(SinDeg(es.rotation))
        rx == RSub(RMul(fx, c), RMul(fy, sn))
        ry == RAdd(RMul(fx, sn), RMul(fy, c))
        currentScale == RMul(vs.fitScale, vs.userScale)
    IN  [x |-> RMul(currentScale, rx), y |-> RMul(currentScale, ry)]

(***************************************************************************)
(* Crop resolver: one operator per case of the switch on dragState.handle  *)
(* r is a copy of dragState.startRect, d the image-space delta             *)
(***************************************************************************)
AspectRatio(r) == RDiv(r.width, r.height)

\* case 'body'
MoveBody(r, d, image) ==
    [r EXCEPT
       !.x = RMax(I(0), RMin(RSub(I(image.width), r.width), RAdd(r.x, d.x))),
       !.y = RMax(I(0), RMin(RSub(I(image.height), r.height), RAdd(r.y, d.y)))]

\* the clamped origin / extent expressions shared by the unlocked cases
NewX(r, d) ==
    RMin(RSub(RAdd(r.x, r.width), I(minSize)), RMax(I(0), RAdd(r.x, d.x)))
NewY(r, d) ==
    RMin(RSub(RAdd(r.y, r.height), I(minSize)), RMax(I(0), RAdd(r.y, d.y)))
\* a variant that forgets the minimum height
GrowHeightNoFloor(r, d, image) ==
    RMin(RSub(I(image.height), r.y), RAdd(r.height, d.y))

\* a variant that forgets the image's right edge
GrowWidthUnbounded(r, d, image) == RMax(I(minSize), RAdd(r.width, d.x))

GrowWidth(r, d, image) ==
    RMax(I(minSize), RMin(RSub(I(image.width), r.x), RAdd(r.width, d.x)))
GrowHeight(r, d, image) ==
    RMax(I(minSize), RMin(RSub(I(image.height), r.y), RAdd(r.height, d.y)))

\* the width-driven candidate widths of the aspect-locked corner cases
LockedWidthLeft(r, d) ==
    RMax(I(minSize), RMin(RAdd(r.x, r.width), RSub(r.width, d.x)))
\* a variant in which the vertical delta widens the rectangle as well
LockedWidthRightByBoth(r, d, image) ==
    RMax(I(minSize), RMin(RSub(I(image.width), r.x),
                          RAdd(r.width, RAdd(d.x, d.y))))

LockedWidthRight(r, d, image) ==
    RMax(I(minSize), RMin(RSub(I(image.width), r.x), RAdd(r.width, d.x)))
\* a variant that keeps the start height instead of deriving it
LockedHeightKept(r, newWidth) == r.height

LockedHeight(r, newWidth) == RDiv(newWidth, AspectRatio(r))

\* case 'nw'
ResizeNW(r, d, image, locked) ==
    IF locked
    THEN LET newWidth  == LockedWidthLeft(r, d)
             newHeight == LockedHeight(r, newWidth)
             newX == RSub(RAdd(r.x, r.width), newWidth)
             newY == RSub(RAdd(r.y, r.height), newHeight)
         IN  IF RLe(I(0), newX) /\ RLe(I(0), newY) /\ RLe(I(minSize), newHeight)
             THEN Rect(newX, newY, newWidth, newHeight)
             ELSE r
    ELSE LET newX == NewX(r, d)
             newY == NewY(r, d)
         IN  Rect(newX, newY,
                  RAdd(r.width, RSub(r.x, newX)),
                  RAdd(r.height, RSub(r.y, newY)))

\* case 'ne'
ResizeNE(r, d, image, locked) ==
    IF locked
    THEN LET newWidth  == LockedWidthRight(r, d, image)
             newHeight == LockedHeight(r, newWidth)
             newY == RSub(RAdd(r.y, r.height), newHeight)
         IN  IF RLe(I(0), newY) /\ RLe(I(minSize), newHeight)
             THEN Rect(r.x, newY, newWidth, newHeight)
             ELSE r
    ELSE LET newY == NewY(r, d)
         IN  Rect(r.x, newY, GrowWidth(r, d, image),
                  RAdd(r.height, RSub(r.y, newY)))

\* case 'se'
ResizeSE(r, d, image, locked) ==
    IF locked
    THEN LET newWidth  == LockedWidthRight(r, d, image)
             newHeight == LockedHeight(r, newWidth)
         IN  IF RLe(RAdd(r.y, newHeight), I(image.height))
                /\ RLe(I(minSize), newHeight)
             THEN Rect(r.x, r.y, newWidth, newHeight)
             ELSE r
    ELSE Rect(r.x, r.y, GrowWidth(r, d, image), GrowHeight(r, d, image))

\* case 'sw'
ResizeSW(r, d, image, locked) ==
    IF locked
    THEN LET newWidth  == LockedWidthLeft(r, d)
             newHeight == LockedHeight(r, newWidth)
             newX == RSub(RAdd(r.x, r.width), newWidth)
         IN  IF RLe(I(0), newX)
                /\ RLe(RAdd(r.y, newHeight), I(image.height))
                /\ RLe(I(minSize), newHeight)
             THEN Rect(newX, r.y, newWidth, newHeight)
             ELSE r
    ELSE LET newX == NewX(r, d)
         IN  Rect(newX, r.y, RAdd(r.width, RSub(r.x, newX)),
                  GrowHeight(r, d, image))

\* case 'n'
ResizeN(r, d) ==
    LET newY == NewY(r, d)
    IN  [r EXCEPT !.height = RAdd(r.height, RSub(r.y, newY)), !.y = newY]

\* a variant of case 's' that widens the rectangle with the height
ResizeSKeepingRatio(r, d, image) ==
    LET newHeight == GrowHeight(r, d, image)
    IN  [r EXCEPT !.height = newHeight,
                  !.width = RMul(newHeight, AspectRatio(r))]

\* case 's'
ResizeS(r, d, image) == [r EXCEPT !.height = GrowHeight(r, d, image)]

\* a variant of case 'w' that moves the left edge and keeps the width
ResizeWShift(r, d) == [r EXCEPT !.x = NewX(r, d)]

\* case 'w'
ResizeW(r, d) ==
    LET newX == NewX(r, d)
    IN  [r EXCEPT !.width = RAdd(r.width, RSub(r.x, newX)), !.x = newX]

\* case 'e'
ResizeE(r, d, image) == [r EXCEPT !.width = GrowWidth(r, d, image)]

Corners == {"nw", "ne", "sw", "se"}
Edges   == {"n", "s", "e", "w"}
Handles == {"body"} \cup Corners \cup Edges

\* the switch statement of handleMouseMove
ResolveCrop(handle, r, d, image, locked) ==
    CASE handle = "body" -> MoveBody(r, d, image)
      [] handle = "nw"   -> ResizeNW(r, d, image, locked)
      [] handle = "ne"   -> ResizeNE(r, d, image, locked)
      [] handle = "se"   -> ResizeSE(r, d, image, locked)
      [] handle = "sw"   -> ResizeSW(r, d, image, locked)
      [] handle = "n"    -> ResizeN(r, d)
      [] handle = "s"    -> ResizeS(r, d, image)
      [] handle = "w"    -> ResizeW(r, d)
      [] handle = "e"    -> ResizeE(r, d, image)
      [] OTHER           -> r

(***************************************************************************)
(* Inputs: the images that can be loaded, the viewports, pointer positions *)
(***************************************************************************)
\* ImageFile (types.ts): width/height are naturalWidth/naturalHeight,
\* originalSize the file's size in bytes
Images ==
    { [id |-> "photo", width |-> 1600, height |-> 1200, originalSize |-> 3145728],
      [id |-> "tall", width |-> 600, height |-> 1500, originalSize |-> 524288],
      [id |-> "icon", width |-> 10, height |-> 10, originalSize |-> 1024],
      [id |-> "square", width |-> 2000, height |-> 2000, originalSize |-> 4194304] }

ImageIds == { im.id : im \in Images }
ImageOf(id) == CHOOSE im \in Images : im.id = id

\* container clientWidth/clientHeight and window.innerWidth
Viewports ==
    { [vw |-> 120, vh |-> 320, innerWidth |-> 800],
      [vw |-> 100, vh |-> 300, innerWidth |-> 500] }

\* clientX / clientY of pointer events: where a press lands, and where
\* the pointer moves to
PointerDown == [x |-> 0, y |-> 0]
PointerXs == {7, -30}
PointerYs == {-9, 25}

(***************************************************************************)
(* State                                                                   *)
(***************************************************************************)
VARIABLES
    \* App.tsx
    activeImageId,      \* id of the active image, or NoImage
    editState,          \* EditState
    settings,           \* ExportSettings
    editHistory,        \* sequence of EditState snapshots
    historyIndex,       \* 0-based index into editHistory, -1 when empty
    \* CanvasEditor.tsx
    viewport,           \* the container's size (environment)
    touches,            \* e.touches.length: fingers on the screen (environment)
    viewState,          \* fitScale, userScale, offsetX, offsetY
    dragState,          \* crop drag session
    panState,           \* pan session
    lastPinchDistance,  \* Null or the previous two-finger distance
    \* App.tsx handleProcess / imageUtils.ts processImage
    isProcessing,
    previewModal,       \* Null or the exported blob
    job,                \* the running export: position and locals
    codec,              \* the image encoder's behaviour (environment)
    \* bookkeeping that bounds the exploration (not program state)
    dragSessions,       \* number of crop drag sessions begun
    zoomEvents          \* number of wheel / pinch events handled

appVars  == <<activeImageId, editState, settings, editHistory, historyIndex>>
viewVars == <<viewport, touches, viewState, dragState, panState,
             lastPinchDistance>>
exportVars == <<isProcessing, previewModal, job, codec>>
countVars == <<dragSessions, zoomEvents>>

\* App.tsx:359-367 (construction) and 422-430 / 559-567 (per image)
InitialEditState ==
    [scale |-> I(1), rotation |-> 0, flipX |-> FALSE, flipY |-> FALSE,
     isCropping |-> FALSE, cropRect |-> Null, cropAspectLocked |-> FALSE]

DefaultEditState(image) ==
    [InitialEditState EXCEPT !.cropRect = FullRect(image)]

\* App.tsx:369-383 and 570-587
DefaultWatermark ==
    [enabled |-> FALSE, text |-> "", color |-> "#ffffff", opacity |-> Rat(3, 10),
     fontSize |-> 24, rotation |-> 0, spacingX |-> 200, spacingY |-> 150]

DefaultSettings ==
    [format |-> "image/jpeg", quality |-> Rat(9, 10),
     targetSizeMB |-> Null, targetWidth |-> Null, targetHeight |-> Null,
     maintainAspectRatio |-> TRUE, watermark |-> DefaultWatermark]

\* CanvasEditor.tsx:14-41
InitialViewState ==
    [fitScale |-> I(1), viewportW |-> 0, viewportH |-> 0,
     userScale |-> I(1), offsetX |-> 0, offsetY |-> 0]
InitialDragState ==
    [isDragging |-> FALSE, handle |-> NoHandle, startX |-> 0, startY |-> 0,
     startRect |-> Null]
InitialPanState ==
    [isPanning |-> FALSE, startX |-> 0, startY |-> 0,
     startOffsetX |-> 0, startOffsetY |-> 0]

(***************************************************************************)
(* View-fit calculator: CanvasEditor.tsx updateDimensions, lines 56-89     *)
(***************************************************************************)
IMax(a, b) == IF a >= b THEN a ELSE b
IMin(a, b) == IF a <= b THEN a ELSE b

UpdateDimensions(vs, image, rotation, vp) ==
    LET c == Abs(CosDeg(rotation))
        s == Abs(SinDeg(rotation))
        bbW == image.width * c + image.height * s
        bbH == image.width * s + image.height * c
        padding == 80
        toolbarHeight == IF vp.innerWidth < 640 THEN 160 ELSE 120
        availW == IMax(10, vp.vw - padding)
        availH == IMax(10, vp.vh - padding - toolbarHeight)
        fitScale == RMin(Rat(availW, bbW), Rat(availH, bbH))
    IN  [vs EXCEPT !.fitScale = IF RLt(I(0), fitScale) THEN fitScale ELSE I(1),
                   !.viewportW = vp.vw,
                   !.viewportH = vp.vh]

(***************************************************************************)
(* Undo history: App.tsx addToHistory, lines 510-519                       *)
(***************************************************************************)
\* App.tsx:515  if (newHistory.length > 50) newHistory.shift()
HistoryLimit == 50
\* App.tsx:518  Math.min(prev + 1, 49)
HistoryMaxIndex == 49

\* a variant that never drops the oldest snapshot
NewHistoryUnbounded(prev, idx, state) == Append(SubSeq(prev, 1, idx + 1), state)

NewHistory(prev, idx, state) ==
    LET newHistory == Append(SubSeq(prev, 1, idx + 1), state)
    IN  IF Len(newHistory) > HistoryLimit THEN Tail(newHistory) ELSE newHistory

NewHistoryIndex(prev) == IMin(prev + 1, HistoryMaxIndex)

\* setEditState(newState); addToHistory(newState), followed by the
\* CanvasEditor fit effect (deps: image, editState.rotation, sidebarOpen)
ApplyEdit(newState) ==
    /\ editState' = newState
    /\ editHistory' = NewHistory(editHistory, historyIndex, newState)
    /\ historyIndex' = NewHistoryIndex(historyIndex)
    /\ viewState' = IF newState.rotation # editState.rotation
                    THEN UpdateDimensions(viewState, ImageOf(activeImageId),
                                          newState.rotation, viewport)
                    ELSE viewState

\* setEditState(editHistory[newIndex]) of undo / redo, with the fit effect
RestoreEdit(newIndex) ==
    LET restored == editHistory[newIndex + 1]
    IN  /\ historyIndex' = newIndex
        /\ editState' = restored
        /\ viewState' = IF restored.rotation # editState.rotation
                        THEN UpdateDimensions(viewState, ImageOf(activeImageId),
                                              restored.rotation, viewport)
                        ELSE viewState

(***************************************************************************)
(* App.tsx actions                                                         *)
(***************************************************************************)
\* a variant that resets the whole of the settings
ActivateImageResetAll(id) ==
    LET newState == DefaultEditState(ImageOf(id))
    IN  /\ activeImageId' = id
        /\ editState' = newState
        /\ editHistory' = <<newState>>
        /\ historyIndex' = 0
        /\ settings' = DefaultSettings
        /\ viewState' = UpdateDimensions(viewState, ImageOf(id), 0, viewport)

\* the effect of App.tsx:419-440 and the CanvasEditor fit effect, run when
\* the image with this id becomes the active one
ActivateImage(id) ==
    LET newState == DefaultEditState(ImageOf(id))
    IN  /\ activeImageId' = id
        /\ editState' = newState
        /\ editHistory' = <<newState>>
        /\ historyIndex' = 0
        /\ settings' = [settings EXCEPT !.targetWidth = Null,
                                        !.targetHeight = Null,
                                        !.targetSizeMB = Null]
        /\ viewState' = UpdateDimensions(viewState, ImageOf(id), 0, viewport)

\* handleFilesDropped (App.tsx:386-414): the first image dropped becomes
\* active when no image is active; CanvasEditor mounts
FilesDropped(id) ==
    /\ activeImageId = NoImage
    /\ ActivateImage(id)
    /\ UNCHANGED <<viewport, touches, dragState, panState, lastPinchDistance,
                   exportVars, countVars>>

\* thumbnail click (App.tsx:748): setActiveImageId(img.id); CanvasEditor
\* stays mounted, so its drag / pan / zoom state is kept
SelectImage(id) ==
    /\ activeImageId # NoImage
    /\ id # activeImageId
    /\ ActivateImage(id)
    /\ UNCHANGED <<viewport, touches, dragState, panState, lastPinchDistance,
                   exportVars, countVars>>

\* click on the canvas area (App.tsx:835-843): enables cropping, unrecorded
ClickCanvasArea ==
    /\ activeImageId # NoImage
    /\ ~editState.isCropping
    /\ editState' = [editState EXCEPT !.isCropping = TRUE]
    /\ UNCHANGED <<activeImageId, settings, editHistory, historyIndex,
                   viewVars, exportVars, countVars>>

\* toolbar buttons (App.tsx:1024-1095)
ToggleCrop ==
    /\ activeImageId # NoImage
    /\ ApplyEdit([editState EXCEPT !.isCropping = ~editState.isCropping])
    /\ UNCHANGED <<activeImageId, settings, viewport, touches, dragState, panState,
                   lastPinchDistance, exportVars, countVars>>

ToggleLock ==
    /\ activeImageId # NoImage
    /\ editState.isCropping           \* disabled={!editState.isCropping}
    /\ ApplyEdit([editState EXCEPT !.cropAspectLocked = ~editState.cropAspectLocked])
    /\ UNCHANGED <<activeImageId, settings, viewport, touches, dragState, panState,
                   lastPinchDistance, exportVars, countVars>>

Rotate ==
    /\ activeImageId # NoImage
    /\ ApplyEdit([editState EXCEPT !.rotation = (editState.rotation + 90) % 360])
    /\ UNCHANGED <<activeImageId, settings, viewport, touches, dragState, panState,
                   lastPinchDistance, exportVars, countVars>>

FlipX ==
    /\ activeImageId # NoImage
    /\ ApplyEdit([editState EXCEPT !.flipX = ~editState.flipX])
    /\ UNCHANGED <<activeImageId, settings, viewport, touches, dragState, panState,
                   lastPinchDistance, exportVars, countVars>>

FlipY ==
    /\ activeImageId # NoImage
    /\ ApplyEdit([editState EXCEPT !.flipY = ~editState.flipY])
    /\ UNCHANGED <<activeImageId, settings, viewport, touches, dragState, panState,
                   lastPinchDistance, exportVars, countVars>>

\* handleUndo (App.tsx:522-528)
HandleUndo ==
    /\ historyIndex > 0
    /\ RestoreEdit(historyIndex - 1)
    /\ UNCHANGED <<activeImageId, settings, editHistory, viewport, touches, dragState,
                   panState, lastPinchDistance, exportVars, countVars>>

\* handleRedo (App.tsx:531-537)
HandleRedo ==
    /\ historyIndex < Len(editHistory) - 1
    /\ RestoreEdit(historyIndex + 1)
    /\ UNCHANGED <<activeImageId, settings, editHistory, viewport, touches, dragState,
                   panState, lastPinchDistance, exportVars, countVars>>

\* handleReset (App.tsx:557-588)
HandleReset ==
    /\ activeImageId # NoImage
    /\ ApplyEdit(DefaultEditState(ImageOf(activeImageId)))
    /\ settings' = DefaultSettings
    /\ UNCHANGED <<activeImageId, viewport, touches, dragState, panState,
                   lastPinchDistance, exportVars, countVars>>

(***************************************************************************)
(* CanvasEditor.tsx handlers                                               *)
(***************************************************************************)
\* [0.5, 3] of handleTouchMove (line 158) and handleWheel (line 187)
\* a variant without the upper limit
ClampUserScaleNoCeiling(v) == RMax(Rat(1, 2), v)

ClampUserScale(v) == RMax(Rat(1, 2), RMin(I(3), v))

\* handlePanStart (lines 105-119), as a function of the pan state
PanStart(x, y) ==
    IF editState.isCropping \/ dragState.isDragging
    THEN panState
    ELSE [isPanning |-> TRUE, startX |-> x, startY |-> y,
          startOffsetX |-> viewState.offsetX, startOffsetY |-> viewState.offsetY]

\* handlePanMove (lines 122-136), as a function of the view state vs
PanMove(vs, x, y) ==
    IF ~panState.isPanning
    THEN vs
    ELSE [vs EXCEPT !.offsetX = panState.startOffsetX + (x - panState.startX),
                    !.offsetY = panState.startOffsetY + (y - panState.startY)]

\* handlePanEnd (lines 139-141)
PanEnd == [panState EXCEPT !.isPanning = FALSE]

\* a variant that goes on resizing after the session has ended
CropMoveAfterEnd(x, y) ==
    IF editState.cropRect = Null
    THEN editState
    ELSE LET d == ScreenToImageDelta(x - dragState.startX, y - dragState.startY,
                                     editState, viewState)
             s == IF dragState.startRect = Null THEN editState.cropRect
                  ELSE dragState.startRect
             r == ResolveCrop(dragState.handle, s, d,
                              ImageOf(activeImageId), editState.cropAspectLocked)
         IN  [editState EXCEPT !.cropRect = r]

\* handleMouseMove (lines 215-347), as a function of the edit state
CropMove(x, y) ==
    IF ~dragState.isDragging \/ dragState.startRect = Null
       \/ editState.cropRect = Null
    THEN editState
    ELSE LET d == ScreenToImageDelta(x - dragState.startX, y - dragState.startY,
                                     editState, viewState)
             r == ResolveCrop(dragState.handle, dragState.startRect, d,
                              ImageOf(activeImageId), editState.cropAspectLocked)
         IN  [editState EXCEPT !.cropRect = r]

\* a variant that forgets to clear isDragging
CropEndStillDragging == [dragState EXCEPT !.startRect = Null]

\* handleMouseUp (lines 349-351)
CropEnd == [dragState EXCEPT !.isDragging = FALSE, !.startRect = Null]

\* handleMouseDown (lines 198-213) from onMouseDown of a crop handle; the
\* handles are rendered only while isCropping and cropRect are set
\* (lines 498-573); stopPropagation keeps handlePanStart from running
MouseDownHandle(handle, x, y) ==
    /\ activeImageId # NoImage
    /\ editState.isCropping
    /\ editState.cropRect # Null
    /\ dragState' = [isDragging |-> TRUE, handle |-> handle,
                     startX |-> x, startY |-> y,
                     startRect |-> editState.cropRect]
    /\ dragSessions' = dragSessions + 1
    /\ UNCHANGED <<appVars, viewport, touches, viewState, panState, lastPinchDistance,
                   exportVars, zoomEvents>>

\* handleMouseDown from onTouchStart of a crop handle (lines 509-566): a
\* finger lands on the handle; (x, y) is e.touches[0]
TouchStartHandle(handle, x, y) ==
    /\ activeImageId # NoImage
    /\ editState.isCropping
    /\ editState.cropRect # Null
    /\ touches' = touches + 1
    /\ dragState' = [isDragging |-> TRUE, handle |-> handle,
                     startX |-> x, startY |-> y,
                     startRect |-> editState.cropRect]
    /\ dragSessions' = dragSessions + 1
    /\ UNCHANGED <<appVars, viewport, viewState, panState, lastPinchDistance,
                   exportVars, zoomEvents>>

\* onTouchStart of the container (line 393): a finger lands on the canvas
\* outside the handles and handlePanStart runs; (x, y) is e.touches[0]
TouchStartCanvas(x, y) ==
    /\ activeImageId # NoImage
    /\ touches' = touches + 1
    /\ panState' = PanStart(x, y)
    /\ UNCHANGED <<appVars, viewport, viewState, dragState, lastPinchDistance,
                   exportVars, countVars>>

\* onMouseDown of the container (line 380): handlePanStart
MouseDownCanvas(x, y) ==
    /\ activeImageId # NoImage
    /\ ~(editState.isCropping \/ dragState.isDragging)
    /\ panState' = PanStart(x, y)
    /\ UNCHANGED <<appVars, viewport, touches, viewState, dragState, lastPinchDistance,
                   exportVars, countVars>>

\* onMouseMove of the container (lines 381-384)
MouseMove(x, y) ==
    /\ activeImageId # NoImage
    /\ panState.isPanning \/ dragState.isDragging
    /\ viewState' = PanMove(viewState, x, y)
    /\ editState' = CropMove(x, y)
    /\ UNCHANGED <<activeImageId, settings, editHistory, historyIndex,
                   viewport, touches, dragState, panState, lastPinchDistance,
                   exportVars, countVars>>

\* onMouseUp of the container (lines 385-388)
MouseUp ==
    /\ activeImageId # NoImage
    /\ panState' = PanEnd
    /\ dragState' = CropEnd
    /\ UNCHANGED <<appVars, viewport, touches, viewState, lastPinchDistance,
                   exportVars, countVars>>

\* onMouseLeave of the container (lines 389-392)
MouseLeave ==
    /\ activeImageId # NoImage
    /\ panState' = PanEnd
    /\ dragState' = CropEnd
    /\ UNCHANGED <<appVars, viewport, touches, viewState, lastPinchDistance,
                   exportVars, countVars>>

\* handleWheel (lines 184-193); up is deltaY <= 0
Wheel(up) ==
    /\ activeImageId # NoImage
    /\ LET delta == IF up THEN Rat(11, 10) ELSE Rat(9, 10)
           newScale == ClampUserScale(RMul(viewState.userScale, delta))
       IN  viewState' = [viewState EXCEPT !.userScale = newScale]
    /\ zoomEvents' = zoomEvents + 1
    /\ UNCHANGED <<appVars, viewport, touches, dragState, panState, lastPinchDistance,
                   exportVars, dragSessions>>

\* handleTouchMove (lines 144-171) with two touches at the given distance
\* (Math.hypot of two distinct touch points), as a function of the view state
PinchMove(vs, distance) ==
    IF lastPinchDistance # Null
    THEN LET scaleDelta == RDiv(distance, lastPinchDistance)
             newScale == ClampUserScale(RMul(viewState.userScale, scaleDelta))
         IN  [vs EXCEPT !.userScale = newScale]
    ELSE vs

\* onTouchMove of the container (lines 394-397) with two touches:
\* handleTouchMove, then handleMouseMove on touches[0] = (x, y)
TouchMovePinch(x, y, distance) ==
    /\ activeImageId # NoImage
    /\ touches = 2
    /\ viewState' = PinchMove(viewState, distance)
    /\ lastPinchDistance' = distance
    /\ editState' = CropMove(x, y)
    /\ zoomEvents' = zoomEvents + 1
    /\ UNCHANGED <<activeImageId, settings, editHistory, historyIndex,
                   viewport, touches, dragState, panState, exportVars, dragSessions>>

\* onTouchMove of the container with one touch (or more than two):
\* handleTouchMove clears the pinch distance and pans, then handleMouseMove
TouchMoveSingle(x, y) ==
    /\ activeImageId # NoImage
    /\ touches >= 1 /\ touches # 2
    /\ viewState' = PanMove(viewState, x, y)
    /\ lastPinchDistance' = Null
    /\ editState' = CropMove(x, y)
    /\ UNCHANGED <<activeImageId, settings, editHistory, historyIndex,
                   viewport, touches, dragState, panState, exportVars, countVars>>

\* onTouchEnd of the container (lines 398-401) with `remaining` touches left
TouchEnd(remaining) ==
    /\ activeImageId # NoImage
    /\ remaining = touches - 1
    /\ remaining >= 0
    /\ touches' = remaining
    /\ lastPinchDistance' = IF remaining < 2 THEN Null ELSE lastPinchDistance
    /\ panState' = IF remaining = 0 THEN PanEnd ELSE panState
    /\ dragState' = CropEnd
    /\ UNCHANGED <<appVars, viewport, viewState, exportVars, countVars>>

\* onTouchCancel of the container (lines 402-405) with `remaining`
\* touches left: handlePanEnd, then handleMouseUp
TouchCancel(remaining) ==
    /\ activeImageId # NoImage
    /\ remaining \in 0..(touches - 1)
    /\ touches' = remaining
    /\ panState' = PanEnd
    /\ dragState' = CropEnd
    /\ UNCHANGED <<appVars, viewport, viewState, lastPinchDistance,
                   exportVars, countVars>>

(***************************************************************************)
(* SettingsPanel.tsx handlers                                              *)
(***************************************************************************)
JPEG == "image/jpeg"
PNG  == "image/png"
WEBP == "image/webp"
Formats == {JPEG, PNG, WEBP}

\* a JavaScript number used as a condition: undefined, 0 and NaN are falsy
Truthy(v) == v # Null /\ v.n # 0

NaN == [nan |-> TRUE]
Digits == <<"0", "1", "2", "3", "4", "5", "6", "7", "8", "9">>
IsDigit(c) == \E k \in 1..Len(Digits) : Digits[k] = c
DigitValue(c) == (CHOOSE k \in 1..Len(Digits) : Digits[k] = c) - 1

\* the value of the longest prefix of digits of text, after acc
RECURSIVE DigitPrefix(_, _)
DigitPrefix(text, acc) ==
    IF text = << >> \/ ~IsDigit(Head(text))
    THEN acc
    ELSE DigitPrefix(Tail(text), 10 * acc + DigitValue(Head(text)))

\* a parseInt that reads a text without a number as 0
ParseIntZero(text) ==
    LET negative == text # << >> /\ Head(text) = "-"
        signed   == text # << >> /\ Head(text) \in {"-", "+"}
        rest     == IF signed THEN Tail(text) ELSE text
    IN  IF rest = << >> \/ ~IsDigit(Head(rest))
        THEN I(0)
        ELSE IF negative THEN I(-DigitPrefix(rest, 0))
             ELSE I(DigitPrefix(rest, 0))

\* parseInt(value) of a text given as a sequence of characters: an optional
\* sign and the longest prefix of digits, as a number [n, d]; NaN when
\* there is no digit
ParseInt(text) ==
    LET negative == text # << >> /\ Head(text) = "-"
        signed   == text # << >> /\ Head(text) \in {"-", "+"}
        rest     == IF signed THEN Tail(text) ELSE text
    IN  IF rest = << >> \/ ~IsDigit(Head(rest))
        THEN NaN
        ELSE IF negative THEN I(-DigitPrefix(rest, 0))
             ELSE I(DigitPrefix(rest, 0))

\* format buttons (SettingsPanel.tsx:206)
SetFormat(fmt) ==
    /\ activeImageId # NoImage
    /\ settings' = [settings EXCEPT !.format = fmt]
    /\ UNCHANGED <<activeImageId, editState, editHistory, historyIndex,
                   viewVars, exportVars, countVars>>

\* maxLimitMB (SettingsPanel.tsx:51-53)
MaxLimitMB(image) == RMax(I(1), Rat(image.originalSize, 1024 * 1024))

\* target-size field left with a number of megabytes in it, or empty
\* (SettingsPanel.tsx:247-263); mb is Null for the empty field
SetTargetSize(mb) ==
    /\ activeImageId # NoImage
    /\ settings' =
         IF mb = Null
         THEN [settings EXCEPT !.targetSizeMB = Null]
         ELSE IF /\ RLt(I(0), mb)
                 /\ RLe(Rat(1, 10), mb)
                 /\ RLe(mb, MaxLimitMB(ImageOf(activeImageId)))
              THEN [settings EXCEPT !.targetSizeMB = mb]
              ELSE settings
    /\ UNCHANGED <<activeImageId, editState, editHistory, historyIndex,
                   viewVars, exportVars, countVars>>

\* the aspect-ratio button of the dimensions row (SettingsPanel.tsx:306)
ToggleMaintainAspectRatio ==
    /\ activeImageId # NoImage
    /\ settings' = [settings EXCEPT
                      !.maintainAspectRatio = ~settings.maintainAspectRatio]
    /\ UNCHANGED <<activeImageId, editState, editHistory, historyIndex,
                   viewVars, exportVars, countVars>>

\* w / h of handleDimensionChange (SettingsPanel.tsx:123-125)
PanelRatio(es, image) ==
    IF es.cropRect # Null
    THEN RDiv(es.cropRect.width, es.cropRect.height)
    ELSE Rat(image.width, image.height)

\* handleDimensionChange (SettingsPanel.tsx:115-135); key is "targetWidth"
\* or "targetHeight", text the content of the input field
HandleDimensionChange(key, text) ==
    /\ activeImageId # NoImage
    /\ LET val == ParseInt(text)
           num == IF val = NaN THEN Null ELSE val
           ratio == PanelRatio(editState, ImageOf(activeImageId))
           derive == settings.maintainAspectRatio /\ Truthy(num)
       IN  settings' =
             IF key = "targetWidth"
             THEN [settings EXCEPT
                     !.targetWidth = num,
                     !.targetHeight = IF derive THEN I(RRound(RDiv(num, ratio)))
                                      ELSE @]
             ELSE [settings EXCEPT
                     !.targetHeight = num,
                     !.targetWidth = IF derive THEN I(RRound(RMul(num, ratio)))
                                     ELSE @]
    /\ UNCHANGED <<activeImageId, editState, editHistory, historyIndex,
                   viewVars, exportVars, countVars>>

\* watermark switch (SettingsPanel.tsx:364-367)
ToggleWatermark ==
    /\ activeImageId # NoImage
    /\ settings' = [settings EXCEPT
                      !.watermark.enabled = ~settings.watermark.enabled]
    /\ UNCHANGED <<activeImageId, editState, editHistory, historyIndex,
                   viewVars, exportVars, countVars>>

\* watermark text field (SettingsPanel.tsx:385-393), rendered while the
\* watermark is enabled (line 378)
SetWatermarkText(text) ==
    /\ activeImageId # NoImage
    /\ settings.watermark.enabled
    /\ settings' = [settings EXCEPT !.watermark.text = text]
    /\ UNCHANGED <<activeImageId, editState, editHistory, historyIndex,
                   viewVars, exportVars, countVars>>

\* horizontal spacing field (SettingsPanel.tsx:497-505)
SetWatermarkSpacingX(val) ==
    /\ activeImageId # NoImage
    /\ settings.watermark.enabled
    /\ settings' = [settings EXCEPT
                      !.watermark.spacingX =
                          IF val >= 50 /\ val <= 1000 THEN val ELSE @]
    /\ UNCHANGED <<activeImageId, editState, editHistory, historyIndex,
                   viewVars, exportVars, countVars>>

\* vertical spacing field (SettingsPanel.tsx:530-538)
SetWatermarkSpacingY(val) ==
    /\ activeImageId # NoImage
    /\ settings.watermark.enabled
    /\ settings' = [settings EXCEPT
                      !.watermark.spacingY =
                          IF val >= 50 /\ val <= 1000 THEN val ELSE @]
    /\ UNCHANGED <<activeImageId, editState, editHistory, historyIndex,
                   viewVars, exportVars, countVars>>

(***************************************************************************)
(* Watermark tiling: CanvasEditor.tsx:443-449 (preview) and                *)
(* imageUtils.ts:168-189 (export) compute the same expressions from the    *)
(* width and height of the surface they draw on                            *)
(***************************************************************************)
WatermarkTiling(width, height, wm) ==
    LET baseFontSize == RMax(RMul(I(IMin(width, height)), Rat(3, 100)), I(16))
        autoSpacingX == IF wm.spacingX # 0 THEN I(wm.spacingX)
                        ELSE RMax(RMul(I(width), Rat(1, 5)), I(200))
        autoSpacingY == IF wm.spacingY # 0 THEN I(wm.spacingY)
                        ELSE RMax(RMul(I(height), Rat(15, 100)), I(150))
    IN  [fontSize |-> baseFontSize,
         spacingX |-> autoSpacingX,
         spacingY |-> autoSpacingY,
         rows |-> RCeil(RDiv(I(height), autoSpacingY)) + 2,
         cols |-> RCeil(RDiv(I(width), autoSpacingX)) + 2]

WatermarkShown(st) == st.watermark.enabled /\ st.watermark.text # ""

\* Layer 2 of CanvasEditor.tsx (lines 439-478): the tiling of the preview,
\* laid out on the image's own width and height
PreviewTiling(image, st) ==
    IF WatermarkShown(st)
    THEN WatermarkTiling(image.width, image.height, st.watermark)
    ELSE Null

(***************************************************************************)
(* Export pipeline: imageUtils.ts processImage, stages 1-6                 *)
(***************************************************************************)
\* lines 83-90
\* a variant that uses the crop rectangle whether or not isCropping is set
SourceWindowAnyCrop(es, image) ==
    IF es.cropRect # Null THEN es.cropRect ELSE FullRect(image)

SourceWindow(es, image) ==
    IF es.cropRect # Null /\ es.isCropping THEN es.cropRect ELSE FullRect(image)

\* assignment of a non-negative number to canvas.width / canvas.height:
\* the fraction is dropped
CanvasDim(v) == RFloor(v)

\* lines 93-111: the size of the base canvas
BaseCanvas(es, image) ==
    LET src == SourceWindow(es, image)
        absCos == I(Abs(CosDeg(es.rotation)))
        absSin == I(Abs(SinDeg(es.rotation)))
        rotatedW == RAdd(RMul(src.width, absCos), RMul(src.height, absSin))
        rotatedH == RAdd(RMul(src.width, absSin), RMul(src.height, absCos))
    IN  [width  |-> CanvasDim(RMul(rotatedW, es.scale)),
         height |-> CanvasDim(RMul(rotatedH, es.scale))]

\* a variant with the ratio inverted
DerivedHeightInverted(targetW, canvas) ==
    RRound(RDiv(I(targetW), Rat(canvas.height, canvas.width)))

\* lines 138-140: targetH = Math.round(targetW / ratio)
DerivedHeight(targetW, canvas) ==
    RRound(RDiv(I(targetW), Rat(canvas.width, canvas.height)))

\* lines 138, 142: targetW = Math.round(targetH * ratio)
DerivedWidth(targetH, canvas) ==
    RRound(RMul(I(targetH), Rat(canvas.width, canvas.height)))

\* line 132
ResizeRequested(st) == Truthy(st.targetWidth) \/ Truthy(st.targetHeight)

\* lines 131-154: the size of finalCanvas after the resize stage; rCtxOk
\* tells whether the resize surface gave a context
ResizeStage(canvas, st, rCtxOk) ==
    IF ResizeRequested(st)
    THEN LET targetW0 == IF Truthy(st.targetWidth) THEN st.targetWidth.n
                         ELSE canvas.width
             targetH0 == IF Truthy(st.targetHeight) THEN st.targetHeight.n
                         ELSE canvas.height
             widthOnly  == /\ Truthy(st.targetWidth) /\ ~Truthy(st.targetHeight)
                           /\ st.maintainAspectRatio
             heightOnly == /\ ~Truthy(st.targetWidth) /\ Truthy(st.targetHeight)
                           /\ st.maintainAspectRatio
             targetW == IF ~widthOnly /\ heightOnly
                        THEN DerivedWidth(targetH0, canvas) ELSE targetW0
             targetH == IF widthOnly
                        THEN DerivedHeight(targetW0, canvas) ELSE targetH0
         IN  IF rCtxOk THEN [width |-> targetW, height |-> targetH] ELSE canvas
    ELSE canvas

\* lines 157-206: the tiling drawn on the export, Null when none is drawn;
\* wCtxOk tells whether the watermark surface gave a context
WatermarkStage(final, st, wCtxOk) ==
    IF WatermarkShown(st) /\ wCtxOk
    THEN WatermarkTiling(final.width, final.height, st.watermark)
    ELSE Null

(***************************************************************************)
(* Image encoder (canvas.toBlob): an opaque environment                    *)
(***************************************************************************)
\* the sizes, in bytes, an encode can come out at
Sizes == {300000, 800000, 2000000}

\* a step encoder gives `below` bytes under the quality threshold th and
\* `above` bytes from it on (monotonic when below <= above); an "any"
\* encoder gives any size at every call; a flaky one can also give null
Codecs ==
    [kind : {"step"}, th : {Rat(1, 50), Rat(1, 2)},
     below : Sizes, above : Sizes, flaky : BOOLEAN]
    \cup [kind : {"any"}, th : {I(0)}, below : {0}, above : {0},
          flaky : BOOLEAN]

PlainCodec ==
    [kind |-> "step", th |-> Rat(1, 2), below |-> 300000, above |-> 800000,
     flaky |-> FALSE]

Blob(size) == [size |-> size]

StepSize(c, q) == IF RLt(q, c.th) THEN c.below ELSE c.above

\* what canvas.toBlob(callback, fmt, q) can hand to its callback
EncodeResults(fmt, q) ==
    LET sizes == IF codec.kind = "any" THEN Sizes
                 ELSE IF fmt = PNG THEN {codec.above}
                 ELSE {StepSize(codec, q)}
    IN  { Blob(s) : s \in sizes } \cup (IF codec.flaky THEN {Null} ELSE {})

(***************************************************************************)
(* App.tsx handleProcess (lines 461-483) running imageUtils.ts             *)
(* processImage (70-225) and compressToTargetSize (25-68); one action per  *)
(* await                                                                   *)
(***************************************************************************)
\* imageUtils.ts:35-36
MinQuality == Rat(1, 100)
MaxQuality == I(1)
\* imageUtils.ts:47  while (iteration < 6)
MaxIterations == 6

\* a variant that runs the loop once more
LoopContinuesOnceMore(iteration) == iteration <= MaxIterations

LoopContinues(iteration) == iteration < MaxIterations

\* a variant that sends PNG through the search
IsLosslessNever(fmt) == FALSE

\* imageUtils.ts:30
IsLossless(fmt) == fmt = PNG

\* what getContext('2d') gave for a surface: "unused" before the call or
\* when the stage does not run, "ok" for a context, "null" for none
SurfaceResult(requested, ok) ==
    IF ~requested THEN "unused" ELSE IF ok THEN "ok" ELSE "null"

\* job.pc is the await the export is suspended at; ctx, rCtx and wCtx are
\* the results of the three getContext calls; encodeCalls, observed,
\* sawNull, lastQuality and lastEncoded log the encodes made (bookkeeping)
IdleJob ==
    [pc |-> "idle", es |-> Null, st |-> Null, image |-> Null,
     ctx |-> "unused", rCtx |-> "unused", wCtx |-> "unused",
     source |-> Null, canvas |-> Null, final |-> Null, watermark |-> Null,
     targetBytes |-> Null, minQ |-> Null, maxQ |-> Null, iteration |-> 0,
     resultBlob |-> Null,
     encodeCalls |-> 0, observed |-> {}, sawNull |-> FALSE,
     lastQuality |-> Null, lastEncoded |-> Null,
     settled |-> "pending", blob |-> Null, outcome |-> "none"]

Recorded(j, q, b) ==
    [j EXCEPT !.encodeCalls = @ + 1,
              !.observed = IF b = Null THEN @ ELSE @ \cup {b.size},
              !.sawNull = @ \/ b = Null,
              !.lastQuality = q,
              !.lastEncoded = b]

\* a variant without the finally branch: isProcessing is left as it is
SettleStillProcessing(j, settled, b) ==
    /\ job' = [j EXCEPT !.pc = "done", !.settled = settled, !.blob = b,
                        !.outcome = IF settled = "resolved" /\ b # Null
                                    THEN "preview" ELSE "alert"]
    /\ previewModal' = IF settled = "resolved" /\ b # Null THEN b
                       ELSE previewModal
    /\ isProcessing' = isProcessing

\* the promise of processImage settles and handleProcess continues (lines
\* 470-482): a blob opens the preview modal, a rejection or a null blob
\* (URL.createObjectURL throws) raises the alert; isProcessing is cleared
Settle(j, settled, b) ==
    /\ job' = [j EXCEPT !.pc = "done", !.settled = settled, !.blob = b,
                        !.outcome = IF settled = "resolved" /\ b # Null
                                    THEN "preview" ELSE "alert"]
    /\ previewModal' = IF settled = "resolved" /\ b # Null THEN b
                       ELSE previewModal
    /\ isProcessing' = FALSE

\* handleProcess up to its first await (lines 461-466); the export button
\* is disabled while isProcessing (line 643)
HandleProcess ==
    /\ activeImageId # NoImage
    /\ ~isProcessing
    /\ isProcessing' = TRUE
    /\ job' = [IdleJob EXCEPT !.pc = "timer", !.es = editState,
                              !.st = settings,
                              !.image = ImageOf(activeImageId)]
    /\ UNCHANGED <<appVars, viewVars, previewModal, codec, countVars>>

\* the 100 ms timer fires (line 466); processImage starts loading (line 75)
TimerFired ==
    /\ job.pc = "timer"
    /\ job' = [job EXCEPT !.pc = "loading"]
    /\ UNCHANGED <<appVars, viewVars, isProcessing, previewModal, codec,
                   countVars>>

\* img.onerror (imageUtils.ts:17)
ImageLoadError ==
    /\ job.pc = "loading"
    /\ Settle(job, "rejected", Null)
    /\ UNCHANGED <<appVars, viewVars, codec, countVars>>

\* img.onload: stages 1-6 run and stage 7 starts its first encode (lines
\* 78-224); the three flags tell which getContext('2d') calls succeed
ImageLoaded(ctxOk, rCtxOk, wCtxOk) ==
    /\ job.pc = "loading"
    /\ IF ~ctxOk
       THEN Settle([job EXCEPT !.ctx = "null"], "rejected", Null)
       ELSE LET canvas == BaseCanvas(job.es, job.image)
                final  == ResizeStage(canvas, job.st, rCtxOk)
                wm     == WatermarkStage(final, job.st, wCtxOk)
                sized  == Truthy(job.st.targetSizeMB)
                          /\ RLt(I(0), job.st.targetSizeMB)
                j1 == [job EXCEPT
                         !.ctx = "ok",
                         !.source = SourceWindow(job.es, job.image),
                         !.rCtx = SurfaceResult(ResizeRequested(job.st), rCtxOk),
                         !.wCtx = SurfaceResult(WatermarkShown(job.st), wCtxOk),
                         !.canvas = canvas, !.final = final,
                         !.watermark = wm]
            IN  /\ job' =
                     IF ~sized THEN [j1 EXCEPT !.pc = "standard"]
                     ELSE LET j2 == [j1 EXCEPT !.targetBytes =
                                        RMul(job.st.targetSizeMB, I(1024 * 1024))]
                          IN  IF IsLossless(job.st.format)
                              THEN [j2 EXCEPT !.pc = "png"]
                              ELSE [j2 EXCEPT !.pc = "probe",
                                              !.minQ = MinQuality,
                                              !.maxQ = MaxQuality]
                /\ UNCHANGED <<isProcessing, previewModal>>
    /\ UNCHANGED <<appVars, viewVars, codec, countVars>>

\* callback of the standard export (lines 214-223)
StandardEncoded(b) ==
    /\ job.pc = "standard"
    /\ b \in EncodeResults(job.st.format, job.st.quality)
    /\ LET j == Recorded(job, job.st.quality, b)
       IN  IF b # Null THEN Settle(j, "resolved", b)
           ELSE Settle(j, "rejected", Null)
    /\ UNCHANGED <<appVars, viewVars, codec, countVars>>

\* callback of the PNG encode of compressToTargetSize (line 32)
PngEncoded(b) ==
    /\ job.pc = "png"
    /\ b \in EncodeResults(job.st.format, Null)
    /\ LET j == Recorded(job, Null, b)
       IN  IF b # Null THEN Settle(j, "resolved", b)
           ELSE Settle(j, "rejected", Null)
    /\ UNCHANGED <<appVars, viewVars, codec, countVars>>

FitsTarget(b, j) == RLe(I(b.size), j.targetBytes)

\* lines 62-67, reached when the loop is left: return resultBlob, or
\* first encode once more at minQ when there is none
AfterLoop(j) ==
    IF j.resultBlob = Null
    THEN /\ job' = [j EXCEPT !.pc = "fallback"]
         /\ UNCHANGED <<isProcessing, previewModal>>
    ELSE Settle(j, "resolved", j.resultBlob)

\* callback of the probe at quality 1.0 (lines 41-47)
ProbeEncoded(b) ==
    /\ job.pc = "probe"
    /\ b \in EncodeResults(job.st.format, MaxQuality)
    /\ LET j == [Recorded(job, MaxQuality, b) EXCEPT !.resultBlob = b]
       IN  IF b # Null /\ FitsTarget(b, j)
           THEN Settle(j, "resolved", b)
           ELSE IF LoopContinues(j.iteration)
                THEN /\ job' = [j EXCEPT !.pc = "bisect"]
                     /\ UNCHANGED <<isProcessing, previewModal>>
                ELSE AfterLoop(j)
    /\ UNCHANGED <<appVars, viewVars, codec, countVars>>

\* callback of the encode at midQ of one loop iteration (lines 48-60)
BisectEncoded(b) ==
    /\ job.pc = "bisect"
    /\ LET midQ == RDiv(RAdd(job.minQ, job.maxQ), I(2))
       IN  /\ b \in EncodeResults(job.st.format, midQ)
           /\ LET j0 == Recorded(job, midQ, b)
                  j1 == IF ~FitsTarget(b, j0)
                        THEN [j0 EXCEPT !.maxQ = midQ, !.iteration = @ + 1]
                        ELSE [j0 EXCEPT !.minQ = midQ, !.resultBlob = b,
                                        !.iteration = @ + 1]
              IN  IF b = Null
                  THEN AfterLoop(j0)
                  ELSE IF LoopContinues(j1.iteration)
                       THEN /\ job' = j1
                            /\ UNCHANGED <<isProcessing, previewModal>>
                       ELSE AfterLoop(j1)
    /\ UNCHANGED <<appVars, viewVars, codec, countVars>>

\* callback of the encode at minQ (lines 63-67)
FallbackEncoded(b) ==
    /\ job.pc = "fallback"
    /\ b \in EncodeResults(job.st.format, job.minQ)
    /\ LET j == [Recorded(job, job.minQ, b) EXCEPT !.resultBlob = b]
       IN  Settle(j, "resolved", b)
    /\ UNCHANGED <<appVars, viewVars, codec, countVars>>

\* the preview modal is closed (App.tsx:503)
ClosePreview ==
    /\ previewModal # Null
    /\ previewModal' = Null
    /\ UNCHANGED <<appVars, viewVars, isProcessing, job, codec, countVars>>

(***************************************************************************)
(* Specifications                                                          *)
(***************************************************************************)
vars == <<appVars, viewVars, exportVars, countVars>>

\* the state after construction: no image is active
Construction ==
    /\ activeImageId = NoImage
    /\ editState = InitialEditState
    /\ settings = DefaultSettings
    /\ editHistory = << >>
    /\ historyIndex = -1
    /\ viewState = InitialViewState
    /\ dragState = InitialDragState
    /\ panState = InitialPanState
    /\ lastPinchDistance = Null
    /\ touches = 0
    /\ isProcessing = FALSE
    /\ previewModal = Null
    /\ job = IdleJob
    /\ dragSessions = 0
    /\ zoomEvents = 0

\* the window size is the environment's choice
Init ==
    /\ Construction
    /\ viewport \in Viewports
    /\ codec = PlainCodec

\* the same in a desktop window
InitDesktop ==
    /\ Construction
    /\ viewport = CHOOSE vp \in Viewports : vp.innerWidth >= 640
    /\ codec = PlainCodec

\* bounds of the exploration
MaxDragSessions == 2
MaxEdits == 1
MaxZoomEvents == 4
MaxTouches == 2
MaxPinchMoves == 1

\* the crop resolver on one image: pointer events on the handles, with the
\* toolbar button that sets the aspect lock
NextCrop ==
    \/ \E id \in {"photo", "icon"} : FilesDropped(id)
    \/ ClickCanvasArea
    \/ (Len(editHistory) <= MaxEdits /\ ToggleLock)
    \/ (dragSessions < MaxDragSessions
          /\ \E h \in Handles : MouseDownHandle(h, PointerDown.x, PointerDown.y))
    \/ \E x \in PointerXs, y \in PointerYs : MouseMove(x, y)
    \/ MouseUp
    \/ MouseLeave

SpecCrop == InitDesktop /\ [][NextCrop]_vars

\* the settings and the edit state are set up before the export starts
Configuring == job.pc = "idle"

\* every result a toBlob callback can receive
AllResults == { Blob(sz) : sz \in Sizes } \cup {Null}

\* contents of the target-size field in megabytes (Null: left empty)
TargetSizeInputs == {Null, Rat(1, 20), Rat(1, 2), I(1)}

\* the adaptive encoder: one image is exported in a chosen format with a
\* chosen target size, by an encoder that is the environment's choice
InitEnc ==
    /\ Construction
    /\ viewport = CHOOSE vp \in Viewports : vp.innerWidth >= 640
    /\ codec \in Codecs

EncoderStep ==
    \E b \in AllResults :
        ProbeEncoded(b) \/ BisectEncoded(b) \/ FallbackEncoded(b)

NextEnc ==
    \/ FilesDropped("photo")
    \/ (Configuring /\ \E fmt \in Formats : SetFormat(fmt))
    \/ (Configuring /\ \E mb \in TargetSizeInputs : SetTargetSize(mb))
    \/ HandleProcess
    \/ TimerFired
    \/ ImageLoadError
    \/ \E ctxOk \in BOOLEAN : ImageLoaded(ctxOk, TRUE, TRUE)
    \/ \E b \in AllResults : StandardEncoded(b)
    \/ \E b \in AllResults : PngEncoded(b)
    \/ \E b \in AllResults : ProbeEncoded(b)
    \/ \E b \in AllResults : BisectEncoded(b)
    \/ \E b \in AllResults : FallbackEncoded(b)
    \/ ClosePreview

SpecEnc == InitEnc /\ [][NextEnc]_vars

\* contents of the width / height fields, character by character
DimensionTexts == { << >>, <<"a", "b", "c">>, <<"8", "0", "0">>, <<"9", "9">> }
WatermarkTexts == {"", "DRAFT"}

\* the render stages of the export: an image is cropped by one drag of the
\* se handle, turned by a quarter and given target dimensions and a
\* watermark, then exported
NextRender ==
    \/ \E id \in {"photo", "tall"} : FilesDropped(id)
    \/ (Configuring /\ ClickCanvasArea)
    \/ (Configuring /\ activeImageId # NoImage
          /\ dragSessions < MaxDragSessions
          /\ editState.cropRect = FullRect(ImageOf(activeImageId))
          /\ MouseDownHandle("se", PointerDown.x, PointerDown.y))
    \/ (Configuring /\ \E x \in PointerXs : MouseMove(x, PointerDown.y))
    \/ (Configuring /\ MouseUp)
    \/ (Configuring /\ editState.rotation = 0 /\ Rotate)
    \/ (Configuring /\ ToggleMaintainAspectRatio)
    \/ (Configuring /\ \E key \in {"targetWidth", "targetHeight"},
                          text \in DimensionTexts :
                              HandleDimensionChange(key, text))
    \/ (Configuring /\ ToggleWatermark)
    \/ (Configuring /\ \E text \in WatermarkTexts : SetWatermarkText(text))
    \/ HandleProcess
    \/ TimerFired
    \/ ImageLoadError
    \/ \E ctxOk, rCtxOk, wCtxOk \in BOOLEAN : ImageLoaded(ctxOk, rCtxOk, wCtxOk)
    \/ \E b \in AllResults : StandardEncoded(b)

SpecRender == InitDesktop /\ [][NextRender]_vars

\* clientX / clientY of the moves of a corner drag: on the 2000x2000 image
\* in the desktop viewport (fitScale 1/50) they are the image-space deltas
\* -1000 and +200 across, -1000 and +100 down
CornerXs == {-20, 4}
CornerYs == {-20, 2}

\* corner drags on the crop rectangle of a large and of a tiny image, with
\* the aspect lock on and off
NextCorner ==
    \/ \E id \in {"square", "icon"} : FilesDropped(id)
    \/ ClickCanvasArea
    \/ (Len(editHistory) <= MaxEdits /\ ToggleLock)
    \/ (dragSessions < MaxDragSessions
          /\ \E h \in Corners : MouseDownHandle(h, PointerDown.x, PointerDown.y))
    \/ \E x \in CornerXs, y \in CornerYs : MouseMove(x, y)
    \/ MouseUp

SpecCorner == InitDesktop /\ [][NextCorner]_vars

\* the view under every turn and flip and several zoom levels: the image is
\* turned and flipped, then zoomed, then the se corner is dragged from the
\* full rectangle
MaxViewEdits == 4
MaxViewZooms == 1

NextView ==
    \/ FilesDropped("photo")
    \/ ClickCanvasArea
    \/ (Len(editHistory) <= MaxViewEdits /\ zoomEvents + dragSessions = 0
          /\ Rotate)
    \/ (Len(editHistory) <= MaxViewEdits /\ zoomEvents + dragSessions = 0
          /\ FlipX)
    \/ (Len(editHistory) <= MaxViewEdits /\ zoomEvents + dragSessions = 0
          /\ FlipY)
    \/ (zoomEvents < MaxViewZooms /\ dragSessions = 0
          /\ \E up \in BOOLEAN : Wheel(up))
    \/ (activeImageId # NoImage /\ dragSessions < MaxDragSessions
          /\ editState.cropRect = FullRect(ImageOf(activeImageId))
          /\ MouseDownHandle("se", PointerDown.x, PointerDown.y))
    \/ \E x \in PointerXs : MouseMove(x, CHOOSE y \in PointerYs : y < 0)
    \/ MouseUp

SpecView == InitDesktop /\ [][NextView]_vars

\* the export from request to settlement: the timer, the image load and
\* the encodes are callbacks of the browser, and the encoder can give any
\* size or no data at every call
InitExport ==
    /\ Construction
    /\ viewport = CHOOSE vp \in Viewports : vp.innerWidth >= 640
    /\ codec = CHOOSE c \in Codecs : c.kind = "any" /\ c.flaky

\* the callbacks a pending export waits for
PipelineStep ==
    \/ TimerFired
    \/ ImageLoadError
    \/ \E ctxOk \in BOOLEAN : ImageLoaded(ctxOk, TRUE, TRUE)
    \/ \E b \in AllResults : StandardEncoded(b)
    \/ \E b \in AllResults : PngEncoded(b)
    \/ EncoderStep

NextExport ==
    \/ FilesDropped("photo")
    \/ (Configuring /\ \E fmt \in Formats : SetFormat(fmt))
    \/ (Configuring /\ \E mb \in TargetSizeInputs : SetTargetSize(mb))
    \/ HandleProcess
    \/ PipelineStep
    \/ ClosePreview

SpecExport == InitExport /\ [][NextExport]_vars

\* every callback the export waits for is eventually delivered
FairExport == SpecExport /\ WF_vars(PipelineStep)

\* edits, recorded and unrecorded, with undo and redo, followed by an
\* export: the crop tool is switched on and off, the se corner is dragged,
\* the image is turned
NextEdit ==
    \/ FilesDropped("photo")
    \/ (Configuring /\ ClickCanvasArea)
    \/ (Configuring /\ Len(editHistory) <= MaxEdits /\ ToggleCrop)
    \/ (Configuring /\ Len(editHistory) <= MaxEdits /\ Rotate)
    \/ (Configuring /\ dragSessions < MaxDragSessions
          /\ MouseDownHandle("se", PointerDown.x, PointerDown.y))
    \/ (Configuring /\ \E x \in PointerXs : MouseMove(x, PointerDown.y))
    \/ (Configuring /\ MouseUp)
    \/ (Configuring /\ HandleUndo)
    \/ (Configuring /\ HandleRedo)
    \/ HandleProcess
    \/ TimerFired
    \/ ImageLoadError
    \/ \E ctxOk \in BOOLEAN : ImageLoaded(ctxOk, TRUE, TRUE)
    \/ \E b \in AllResults : StandardEncoded(b)

SpecEdit == InitDesktop /\ [][NextEdit]_vars

\* contents typed into the width / height fields of a number input
SwitchTexts == { << >>, <<"8", "0", "0">>, <<"1">>, <<"0">>, <<"-", "5">> }

\* the settings panel, edits, reset and image switches
NextSwitch ==
    \/ \E id \in {"photo", "tall"} : FilesDropped(id)
    \/ \E id \in {"photo", "tall"} : SelectImage(id)
    \/ ClickCanvasArea
    \/ (Len(editHistory) <= MaxEdits /\ Rotate)
    \/ (Len(editHistory) <= MaxEdits /\ HandleReset)
    \/ \E fmt \in Formats : SetFormat(fmt)
    \/ \E mb \in TargetSizeInputs : SetTargetSize(mb)
    \/ ToggleMaintainAspectRatio
    \/ \E key \in {"targetWidth", "targetHeight"}, text \in SwitchTexts :
          HandleDimensionChange(key, text)
    \/ ToggleWatermark

SpecSwitch == InitDesktop /\ [][NextSwitch]_vars

\* the undo history: recorded edits, undo, redo, reset and image switches
NextHist ==
    \/ \E id \in {"photo", "tall"} : FilesDropped(id)
    \/ \E id \in {"photo", "tall"} : SelectImage(id)
    \/ Rotate
    \/ (Len(editHistory) <= MaxEdits /\ FlipX)
    \/ (Len(editHistory) <= MaxEdits /\ HandleReset)
    \/ HandleUndo
    \/ HandleRedo

SpecHist == InitDesktop /\ [][NextHist]_vars

\* two-finger distances (Math.hypot of two distinct touch points)
PinchDistances == {I(5), I(10), I(40)}

\* the interactive zoom: wheel and pinch events
NextZoom ==
    \/ \E id \in {"photo", "tall", "icon"} : FilesDropped(id)
    \/ (touches < MaxTouches /\ TouchStartCanvas(PointerDown.x, PointerDown.y))
    \/ (zoomEvents < MaxZoomEvents /\ \E up \in BOOLEAN : Wheel(up))
    \/ (zoomEvents < MaxZoomEvents
          /\ \E distance \in PinchDistances :
                 TouchMovePinch(PointerDown.x, PointerDown.y, distance))
    \/ TouchMoveSingle(PointerDown.x, PointerDown.y)
    \/ \E remaining \in 0..MaxTouches : TouchEnd(remaining)

SpecZoom == Init /\ [][NextZoom]_vars

\* the drag session's state machine: every pointer and touch event of the
\* container and of the body and se handles, and image switches, in any
\* order; a pan starts from the unpanned view and the
\* two fingers of a pinch keep their distance
NextSession ==
    \/ \E id \in {"photo", "tall"} : FilesDropped(id)
    \/ \E id \in {"photo", "tall"} : SelectImage(id)
    \/ ClickCanvasArea
    \/ (dragSessions < MaxDragSessions
          /\ \E h \in {"body", "se"} :
                 MouseDownHandle(h, PointerDown.x, PointerDown.y))
    \/ (dragSessions < MaxDragSessions /\ touches < MaxTouches
          /\ \E h \in {"body", "se"} :
                 TouchStartHandle(h, PointerDown.x, PointerDown.y))
    \/ (viewState.offsetX = 0
          /\ MouseDownCanvas(PointerDown.x, PointerDown.y))
    \/ (touches < MaxTouches
          /\ (editState.isCropping \/ dragState.isDragging
                \/ viewState.offsetX = 0)
          /\ TouchStartCanvas(PointerDown.x, PointerDown.y))
    \/ \E x \in PointerXs : MouseMove(x, PointerDown.y)
    \/ \E x \in PointerXs : TouchMoveSingle(x, PointerDown.y)
    \/ (zoomEvents < MaxPinchMoves
          /\ \E x \in PointerXs :
                 TouchMovePinch(x, PointerDown.y, I(10)))
    \/ MouseUp
    \/ MouseLeave
    \/ \E remaining \in 0..MaxTouches : TouchEnd(remaining)
    \/ \E remaining \in 0..MaxTouches : TouchCancel(remaining)

SpecSession == InitDesktop /\ [][NextSession]_vars

(***************************************************************************)
(* Properties of the crop resolver                                         *)
(***************************************************************************)
ActiveImage == ImageOf(activeImageId)

\* the cropRect invariant of the data model
InBounds(r, image) ==
    /\ RLe(I(0), r.x)
    /\ RLe(I(0), r.y)
    /\ RLe(RAdd(r.x, r.width), I(image.width))
    /\ RLe(RAdd(r.y, r.height), I(image.height))
    /\ RLe(I(minSize), r.width)
    /\ RLe(I(minSize), r.height)

\* C1 as stated: for every active image and every sequence of crop-resolver
\* operations, the crop rectangle lies inside the image and is at least
\* 20 x 20
C1_CropRectInBoundsAnyImage ==
    (activeImageId # NoImage /\ editState.cropRect # Null)
        => InBounds(editState.cropRect, ActiveImage)

\* C1 amended: for every active image that is at least 20 pixels wide and
\* high, after every sequence of crop-resolver operations the crop rectangle
\* lies inside the image and is at least 20 x 20
C1_CropRectInBounds ==
    (/\ activeImageId # NoImage
     /\ editState.cropRect # Null
     /\ ActiveImage.width >= minSize
     /\ ActiveImage.height >= minSize)
        => InBounds(editState.cropRect, ActiveImage)

\* a second drag session, begun on a rectangle that no longer touches the
\* image's left and top edges, has resized the rectangle
C1_Witness ==
    /\ activeImageId # NoImage
    /\ ActiveImage.width >= minSize
    /\ dragSessions = 2
    /\ dragState.isDragging
    /\ dragState.handle \in Corners \cup Edges
    /\ RLt(I(0), dragState.startRect.x)
    /\ RLt(I(0), dragState.startRect.y)
    /\ editState.cropRect # dragState.startRect

SameRatio(r, s) == RMul(r.width, s.height) = RMul(r.height, s.width)

\* C2: every pointerMove of a drag session on a corner handle with the
\* aspect lock on leaves a crop rectangle whose width/height equals the
\* width/height of the rectangle at drag start
C2_LockedCornerKeepsRatio ==
    [][ (/\ dragState.isDragging
         /\ dragState.startRect # Null
         /\ dragState.handle \in Corners
         /\ editState.cropAspectLocked
         /\ \E x \in PointerXs, y \in PointerYs : MouseMove(x, y))
        => SameRatio(editState'.cropRect, dragState.startRect) ]_vars

\* an aspect-locked corner drag has been applied: the rectangle changed size
\* and kept a ratio that is not 1
C2_Witness ==
    /\ dragState.isDragging
    /\ dragState.handle \in Corners
    /\ editState.cropAspectLocked
    /\ editState.cropRect.width # dragState.startRect.width
    /\ editState.cropRect.width # editState.cropRect.height
    /\ SameRatio(editState.cropRect, dragState.startRect)

(***************************************************************************)
(* Properties of the adaptive encoder                                      *)
(***************************************************************************)
Lossy(fmt) == fmt \in {JPEG, WEBP}

\* an export of a lossy format with a target size has returned
SizedLossyDone ==
    /\ job.pc = "done"
    /\ job.targetBytes # Null
    /\ Lossy(job.st.format)

\* the encoder's size is monotonic in quality and never fails
MonotonicCodec ==
    /\ codec.kind = "step"
    /\ codec.below <= codec.above
    /\ ~codec.flaky

\* qualities of [0.01, 1.0] on both sides of every threshold of Codecs
SampleQualities == {MinQuality, Rat(1, 4), Rat(3, 4), MaxQuality}

\* C3: for a lossy format with a target of T bytes and an encoder whose
\* size is monotonic in quality, the adaptive encoder returns a blob of at
\* most T bytes whenever some quality in [0.01, 1.0] gives at most T bytes
C3_MonotonicEncoderMeetsBudget ==
    (/\ SizedLossyDone
     /\ MonotonicCodec
     /\ \E q \in SampleQualities : RLe(I(StepSize(codec, q)), job.targetBytes))
        => (/\ job.settled = "resolved"
            /\ job.blob # Null
            /\ FitsTarget(job.blob, job))

\* C4: for a lossy format with a target size, when neither the probe nor any
\* bisection encode fits the target, the encoder makes one final encode at
\* the lowest bound lo and returns it, and it is the smallest size observed
C4_FallbackReturnsSmallest ==
    (/\ SizedLossyDone
     /\ ~job.sawNull
     /\ \A sz \in job.observed : ~RLe(I(sz), job.targetBytes))
        => (/\ job.lastQuality = job.minQ
            /\ job.blob = job.lastEncoded
            /\ \A sz \in job.observed : job.blob.size <= sz)

\* the number of encode callbacks the adaptive encoder can still need
StepsLeft(j) ==
    CASE j.pc = "probe"    -> 8
      [] j.pc = "bisect"   -> 7 - j.iteration
      [] j.pc = "fallback" -> 1
      [] OTHER             -> 0

\* C5: one export makes at most 8 encode calls (1 probe, at most 6 bisection
\* encodes, at most 1 fallback encode), whatever the encoder returns, and
\* the adaptive encoder terminates: each of its encode callbacks, data or
\* no data, is one more call and strictly lowers a natural-number measure
C5_EncodeCallsBoundedAndTerminates ==
    /\ [](job.encodeCalls <= 8 /\ StepsLeft(job) >= 0)
    /\ [][EncoderStep => /\ job'.encodeCalls = job.encodeCalls + 1
                         /\ StepsLeft(job') < StepsLeft(job)]_vars

\* the longest run: the probe returns no data, six bisection encodes are all
\* over the target, and the fallback encode is made
C5_Witness ==
    /\ job.pc = "done"
    /\ job.encodeCalls = 8
    /\ job.iteration = 6
    /\ job.sawNull

\* C6: a PNG export makes exactly one encode and returns its result, with or
\* without a target size: no search runs, and a result over the target is
\* returned as it is
C6_PngSingleEncode ==
    (job.st # Null /\ job.st.format = PNG)
        => (/\ job.pc \notin {"probe", "bisect", "fallback"}
            /\ job.encodeCalls <= 1
            /\ job.iteration = 0
            /\ (job.pc = "done" /\ job.final # Null)
                  => (/\ job.encodeCalls = 1
                      /\ job.blob = job.lastEncoded
                      /\ job.settled = IF job.lastEncoded # Null
                                       THEN "resolved" ELSE "rejected"))

\* a PNG export with a target size has returned a blob larger than the target
C6_Witness ==
    /\ job.pc = "done"
    /\ job.st.format = PNG
    /\ job.targetBytes # Null
    /\ job.outcome = "preview"
    /\ ~FitsTarget(job.blob, job)
    /\ previewModal = job.blob

(***************************************************************************)
(* Properties of the undo history                                          *)
(***************************************************************************)
RecordedEdit ==
    Rotate \/ FlipX \/ FlipY \/ ToggleCrop \/ ToggleLock \/ HandleReset

\* C7: while an image is active, after any sequence of recorded edits, undo,
\* redo, reset and image switches the history holds at most 50 snapshots and
\* 0 <= historyIndex < length; recording an edit discards the snapshots
\* after the current index, appends the new one, and at capacity drops the
\* oldest
C7_HistoryBounded ==
    /\ [](activeImageId # NoImage
            => (/\ Len(editHistory) <= 50
                /\ 0 <= historyIndex
                /\ historyIndex < Len(editHistory)))
    /\ [][RecordedEdit
            => LET kept == SubSeq(editHistory, 1, historyIndex + 1)
               IN  /\ editHistory' = IF Len(kept) = 50
                                     THEN Append(Tail(kept), editState')
                                     ELSE Append(kept, editState')
                   /\ historyIndex' = Len(editHistory') - 1]_vars

\* the history is full and its oldest snapshot, the image's default state,
\* has been dropped; an undo has moved the index off the end
C7_Witness ==
    /\ activeImageId # NoImage
    /\ Len(editHistory) = 50
    /\ editHistory[1] # DefaultEditState(ActiveImage)
    /\ historyIndex = 48

(***************************************************************************)
(* Properties of the interactive zoom                                      *)
(***************************************************************************)
\* C8: after any sequence of wheel and pinch events userScale lies in
\* [0.5, 3.0]
C8_UserScaleInRange ==
    /\ RLe(Rat(1, 2), viewState.userScale)
    /\ RLe(viewState.userScale, I(3))

\* a pinch has driven the zoom into the upper end of the range
C8_Witness ==
    /\ zoomEvents >= 2
    /\ lastPinchDistance # Null
    /\ viewState.userScale = I(3)

(***************************************************************************)
(* Properties of the export's render stages                                *)
(***************************************************************************)
WidthOnly(st) ==
    Truthy(st.targetWidth) /\ ~Truthy(st.targetHeight) /\ st.maintainAspectRatio
HeightOnly(st) ==
    ~Truthy(st.targetWidth) /\ Truthy(st.targetHeight) /\ st.maintainAspectRatio

\* C9: when the resize stage runs with only targetWidth set and
\* maintainAspectRatio on, the output is targetWidth wide and
\* round(targetWidth * bufferHeight / bufferWidth) high, the buffer being
\* the cropped and rotated render; with only targetHeight set the output is
\* round(targetHeight * bufferWidth / bufferHeight) wide and targetHeight high
C9_DerivedDimension ==
    [][ (\E wCtxOk \in BOOLEAN : ImageLoaded(TRUE, TRUE, wCtxOk))
        => LET buffer == job'.canvas
               out == job'.final
               tw == job.st.targetWidth
               th == job.st.targetHeight
           IN  /\ WidthOnly(job.st)
                    => /\ out.width = tw.n
                       /\ out.height =
                            RRound(Rat(tw.n * buffer.height, buffer.width))
               /\ HeightOnly(job.st)
                    => /\ out.height = th.n
                       /\ out.width =
                            RRound(Rat(th.n * buffer.width, buffer.height)) ]_vars

\* only targetWidth = 800 is set on a 1600 x 1200 buffer: the output is
\* 800 x 600
C9_Witness ==
    /\ job.final # Null
    /\ WidthOnly(job.st)
    /\ job.st.targetWidth = I(800)
    /\ job.canvas = [width |-> 1600, height |-> 1200]
    /\ job.final = [width |-> 800, height |-> 600]

\* C10: the watermark tiling of the interactive preview (font size,
\* spacings, rows and columns) is the tiling composited into the export
C10_PreviewMatchesExport ==
    (job.pc = "done" /\ job.watermark # Null)
        => job.watermark = PreviewTiling(job.image, job.st)

(***************************************************************************)
(* Properties of the export's failures                                     *)
(***************************************************************************)
\* C11: an export in which the base render, the resize stage or the
\* watermark stage got no drawing surface fails with an error; it never
\* returns a blob made with that stage skipped
C11_SurfaceFailureFailsExport ==
    (job.pc = "done" /\ "null" \in {job.ctx, job.rCtx, job.wCtx})
        => (job.settled = "rejected" /\ job.outcome = "alert")

\* C12: when the codec gives no data for the encode whose result would be
\* returned, processImage rejects, for every format and with or without a
\* target size; it never resolves with an absent blob, and the caller gets
\* one failed-export signal
C12_NoDataRejects ==
    (job.pc = "done" /\ job.encodeCalls > 0 /\ job.blob = Null)
        => (job.settled = "rejected" /\ job.outcome = "alert")

(***************************************************************************)
(* Properties of the dimension fields                                      *)
(***************************************************************************)
\* the texts of the model that are not numbers: the empty text and "abc"
InvalidTexts == { << >>, <<"a", "b", "c">> }

\* C13 as stated: a text that is not a valid number, entered in the target
\* width or target height field, is ignored: targetWidth and targetHeight
\* keep the values they had before the input
C13_InvalidTextIgnored ==
    [][\A key \in {"targetWidth", "targetHeight"}, text \in InvalidTexts :
          HandleDimensionChange(key, text)
              => /\ settings'.targetWidth = settings.targetWidth
                 /\ settings'.targetHeight = settings.targetHeight]_vars

\* C13, amended: a text that parseInt reads no number from clears the
\* edited field (it becomes undefined, "auto"); the other field and every
\* other setting keep their values
C13_InvalidTextClearsField ==
    [][\A text \in InvalidTexts :
          /\ HandleDimensionChange("targetWidth", text)
                => settings' = [settings EXCEPT !.targetWidth = Null]
          /\ HandleDimensionChange("targetHeight", text)
                => settings' = [settings EXCEPT !.targetHeight = Null]]_vars

\* the width 800 was entered for the 1600x1200 image with the ratio kept
\* (height 600 derived), then the width field was given an invalid text
C13_Witness ==
    /\ settings.targetWidth = Null
    /\ settings.targetHeight = I(600)

(***************************************************************************)
(* Properties of the corner cases of the crop resolver                     *)
(***************************************************************************)
\* the image-space delta of a pointer at (x, y) in the current drag session
DragDelta(x, y) ==
    ScreenToImageDelta(x - dragState.startX, y - dragState.startY,
                       editState, viewState)

\* a pointerMove to (x, y) of a drag session on a handle of the set hs
DragMove(hs, x, y) ==
    /\ dragState.isDragging
    /\ dragState.startRect # Null
    /\ dragState.handle \in hs
    /\ MouseMove(x, y)

\* C14 as stated: with the aspect lock off, a drag of the se corner by
\* (dx, dy) from the start rectangle (x, y, w, h) yields
\* (x, y, min(max(w+dx, 20), imageWidth-x), min(max(h+dy, 20), imageHeight-y))
C14_UnlockedSeFloorThenEdge ==
    [][\A x \in CornerXs, y \in CornerYs :
          (~editState.cropAspectLocked /\ DragMove({"se"}, x, y))
            => LET s  == dragState.startRect
                   d  == DragDelta(x, y)
                   im == ImageOf(activeImageId)
               IN  editState'.cropRect =
                     Rect(s.x, s.y,
                          RMin(RMax(RAdd(s.width, d.x), I(20)),
                               RSub(I(im.width), s.x)),
                          RMin(RMax(RAdd(s.height, d.y), I(20)),
                               RSub(I(im.height), s.y)))]_vars

\* C14, amended: with the aspect lock off, a drag of the se corner by
\* (dx, dy) from the start rectangle (x, y, w, h) yields
\* (x, y, max(min(w+dx, imageWidth-x), 20), max(min(h+dy, imageHeight-y), 20)):
\* the minimum size wins over the image edge
C14_UnlockedSeEdgeThenFloor ==
    [][\A x \in CornerXs, y \in CornerYs :
          (~editState.cropAspectLocked /\ DragMove({"se"}, x, y))
            => LET s  == dragState.startRect
                   d  == DragDelta(x, y)
                   im == ImageOf(activeImageId)
               IN  editState'.cropRect =
                     Rect(s.x, s.y,
                          RMax(RMin(RAdd(s.width, d.x),
                                    RSub(I(im.width), s.x)), I(20)),
                          RMax(RMin(RAdd(s.height, d.y),
                                    RSub(I(im.height), s.y)), I(20)))]_vars

\* the scenario of C14: on the 2000x2000 image, from {0, 0, 1000, 1000},
\* the se corner dragged by (+200, +100) with the lock off
C14_Witness ==
    /\ activeImageId = "square"
    /\ dragState.isDragging
    /\ dragState.handle = "se"
    /\ ~editState.cropAspectLocked
    /\ dragState.startRect = Rect(I(0), I(0), I(1000), I(1000))
    /\ editState.cropRect = Rect(I(0), I(0), I(1200), I(1100))

\* v limited to the interval [lo, hi], the lower limit taken last
Clamp(v, lo, hi) == RMax(lo, RMin(hi, v))

\* the width-driven candidate of a locked drag of corner h from the start
\* rectangle s by the horizontal delta dx: the corner opposite to h stays
WidthDrivenCandidate(h, s, dx, im) ==
    LET left == h \in {"nw", "sw"}
        top  == h \in {"nw", "ne"}
        room == IF left THEN RAdd(s.x, s.width) ELSE RSub(I(im.width), s.x)
        cw   == Clamp(IF left THEN RSub(s.width, dx) ELSE RAdd(s.width, dx),
                      I(20), room)
        ch   == RDiv(cw, RDiv(s.width, s.height))
    IN  Rect(IF left THEN RSub(RAdd(s.x, s.width), cw) ELSE s.x,
             IF top THEN RSub(RAdd(s.y, s.height), ch) ELSE s.y,
             cw, ch)

\* r lies inside the image
InsideImage(r, im) ==
    /\ RLe(I(0), r.x)
    /\ RLe(I(0), r.y)
    /\ RLe(RAdd(r.x, r.width), I(im.width))
    /\ RLe(RAdd(r.y, r.height), I(im.height))

C20_RejectedMoveKeepsRect ==
    [][\A x \in CornerXs, y \in CornerYs :
          (editState.cropAspectLocked /\ DragMove(Corners, x, y))
            => LET c == WidthDrivenCandidate(dragState.handle,
                                             dragState.startRect,
                                             DragDelta(x, y).x,
                                             ImageOf(activeImageId))
               IN  ~(/\ InsideImage(c, ImageOf(activeImageId))
                     /\ RLe(I(20), c.height))
                     => editState'.cropRect = editState.cropRect]_vars

(***************************************************************************)
(* Properties of the drag session: Idle is ~dragState.isDragging           *)
(***************************************************************************)
\* a press or a finger landing on a crop handle
HandlePressed ==
    \E h \in Handles :
        \/ MouseDownHandle(h, PointerDown.x, PointerDown.y)
        \/ TouchStartHandle(h, PointerDown.x, PointerDown.y)

\* a pointer or touch move on the container
PointerMoved ==
    \E x \in PointerXs :
        \/ MouseMove(x, PointerDown.y)
        \/ TouchMoveSingle(x, PointerDown.y)
        \/ TouchMovePinch(x, PointerDown.y, I(10))

\* a pointer-up, pointer-leave, touch-end or touch-cancel on the container
PointerReleased ==
    \/ MouseUp
    \/ MouseLeave
    \/ \E remaining \in 0..MaxTouches :
          TouchEnd(remaining) \/ TouchCancel(remaining)

\* C16: a drag session starts only by a pointerDown on a handle while
\* isCropping is set and a crop rectangle exists, no other event takes the
\* resolver from Idle to Dragging, and in Idle a pointerMove never changes
\* the crop rectangle
C16_SessionStartsOnHandleOnly ==
    [][/\ (~dragState.isDragging /\ dragState'.isDragging)
            => (/\ editState.isCropping
                /\ editState.cropRect # Null
                /\ HandlePressed)
       /\ (~dragState.isDragging /\ PointerMoved)
            => editState'.cropRect = editState.cropRect]_vars

\* the view was panned by a pointerMove in Idle, then cropping was enabled
\* and a session started on a handle
C16_Witness ==
    /\ dragState.isDragging
    /\ editState.isCropping
    /\ viewState.offsetX # 0

\* C17: every pointer-up, pointer-leave, touch-end and touch-cancel that
\* arrives while Dragging returns the resolver to Idle and leaves the crop
\* rectangle as the last pointerMove set it
C17_ReleaseEndsSession ==
    [][(dragState.isDragging /\ PointerReleased)
          => (/\ ~dragState'.isDragging
              /\ editState' = editState)]_vars

\* a session has resized the rectangle and has ended
C17_Witness ==
    /\ dragSessions > 0
    /\ ~dragState.isDragging
    /\ editState.isCropping
    /\ editState.cropRect # FullRect(ActiveImage)

\* C18: when a second touch point begins while Dragging, the session ends
\* (the resolver is Idle), so that later touch moves no longer resize or
\* move the crop rectangle
C18_SecondTouchEndsSession ==
    [][(dragState.isDragging /\ touches >= 1 /\ touches' = touches + 1)
          => ~dragState'.isDragging]_vars

\* C19: when the active image changes while a drag is in progress, the
\* session is discarded (the resolver is Idle afterwards), so that no later
\* pointerMove applies the previous image's start rectangle to the new
\* image's crop rectangle
C19_ImageSwitchEndsSession ==
    [][(dragState.isDragging /\ activeImageId' # activeImageId)
          => ~dragState'.isDragging]_vars

(***************************************************************************)
(* Properties of the anchors and of the edge handles                       *)
(***************************************************************************)
Right(r)  == RAdd(r.x, r.width)
Bottom(r) == RAdd(r.y, r.height)

\* the coordinates of rectangle r that a drag of handle h must not move:
\* the opposite corner of a corner handle, the opposite edge of an edge
\* handle
Anchor(h, r) ==
    CASE h = "nw" -> <<Right(r), Bottom(r)>>
      [] h = "ne" -> <<r.x, Bottom(r)>>
      [] h = "se" -> <<r.x, r.y>>
      [] h = "sw" -> <<Right(r), r.y>>
      [] h = "n"  -> <<Bottom(r)>>
      [] h = "s"  -> <<r.y>>
      [] h = "w"  -> <<Right(r)>>
      [] h = "e"  -> <<r.x>>

\* C21: throughout a resize drag the anchor stays fixed: after every
\* pointerMove the corner opposite to a dragged corner, or the edge
\* opposite to a dragged edge, is where it was at drag start, with the
\* aspect lock on or off
C21_AnchorFixed ==
    [][\A x \in PointerXs, y \in PointerYs :
          DragMove(Corners \cup Edges, x, y)
            => Anchor(dragState.handle, editState'.cropRect)
                 = Anchor(dragState.handle, dragState.startRect)]_vars

\* a drag of the nw corner or of the w edge has moved the left edge of the
\* rectangle; the right edge is where it was
C21_Witness ==
    /\ dragState.isDragging
    /\ dragState.handle \in {"nw", "w"}
    /\ editState.cropRect.x # dragState.startRect.x
    /\ Right(editState.cropRect) = Right(dragState.startRect)

\* the fields of rectangle r that a drag of edge handle h leaves alone
EdgeKeeps(h, r) ==
    CASE h = "n" -> <<r.x, r.width, Bottom(r)>>
      [] h = "s" -> <<r.x, r.width, r.y>>
      [] h = "w" -> <<r.y, r.height, Right(r)>>
      [] h = "e" -> <<r.y, r.height, r.x>>

\* C22: the edge handles never honour the aspect lock: with the lock on or
\* off an edge drag changes only the one dimension of that edge (and the
\* origin coordinate for n and w), and the rectangle is the same in both
\* cases
C22_EdgesIgnoreLock ==
    [][\A x \in PointerXs, y \in PointerYs :
          DragMove(Edges, x, y)
            => /\ EdgeKeeps(dragState.handle, editState'.cropRect)
                    = EdgeKeeps(dragState.handle, dragState.startRect)
               /\ editState'.cropRect
                    = ResolveCrop(dragState.handle, dragState.startRect,
                                  DragDelta(x, y), ImageOf(activeImageId),
                                  ~editState.cropAspectLocked)]_vars

\* with the lock on, a drag of the s edge has changed the height alone
C22_Witness ==
    /\ dragState.isDragging
    /\ dragState.handle = "s"
    /\ editState.cropAspectLocked
    /\ editState.cropRect.height # dragState.startRect.height
    /\ editState.cropRect.width = dragState.startRect.width

(***************************************************************************)
(* Properties of the source window and of undo / redo                      *)
(***************************************************************************)
\* C23: at export the source rectangle is the crop rectangle exactly when
\* isCropping is true and a crop rectangle exists; in every other edit
\* state, a previously adjusted crop rectangle with isCropping false
\* included, it is the full extent of the image
C23_SourceWindow ==
    job.source # Null
      => job.source = IF job.es.isCropping /\ job.es.cropRect # Null
                      THEN job.es.cropRect
                      ELSE FullRect(job.image)

\* an export made with the crop tool switched off after the rectangle had
\* been adjusted: the whole image is the source
C23_Witness ==
    /\ job.source # Null
    /\ ~job.es.isCropping
    /\ job.es.cropRect # FullRect(job.image)
    /\ job.source = FullRect(job.image)

\* the EditState after handleUndo immediately followed by handleRedo:
\* undo moves the index to historyIndex - 1, redo moves it back and sets
\* the snapshot stored there (the sequence is 1-based, the index 0-based)
AfterUndoRedo == editHistory[(historyIndex - 1) + 1 + 1]

\* C28: undo immediately followed by redo restores the EditState that was
\* current before the undo, for every reachable state in which undo is
\* possible, states reached by crop drags made after the last recorded
\* edit included
C28_UndoRedoRestores ==
    (activeImageId # NoImage /\ historyIndex > 0) => AfterUndoRedo = editState

(***************************************************************************)
(* Properties of the image switch and of the target dimensions             *)
(***************************************************************************)
\* C24: when a different image becomes active, EditState is replaced by
\* the defaults (scale 1, rotation 0, no flips, isCropping false, aspect
\* lock off, cropRect the full extent of the new image) and the history
\* becomes that single state; of ExportSettings, targetWidth, targetHeight
\* and the target size are cleared and format, quality,
\* maintainAspectRatio and watermark are left unchanged
C24_ImageSwitchResets ==
    [][activeImageId' # activeImageId
         => LET im == ImageOf(activeImageId')
                defaults ==
                  [scale |-> I(1), rotation |-> 0, flipX |-> FALSE,
                   flipY |-> FALSE, isCropping |-> FALSE,
                   cropAspectLocked |-> FALSE,
                   cropRect |-> Rect(I(0), I(0), I(im.width), I(im.height))]
            IN  /\ editState' = defaults
                /\ editHistory' = <<defaults>>
                /\ historyIndex' = 0
                /\ settings'.targetWidth = Null
                /\ settings'.targetHeight = Null
                /\ settings'.targetSizeMB = Null
                /\ settings'.format = settings.format
                /\ settings'.quality = settings.quality
                /\ settings'.maintainAspectRatio = settings.maintainAspectRatio
                /\ settings'.watermark = settings.watermark]_vars

\* the second image is active in its default edit state with a history of
\* one state, no target dimensions and no target size, and with a format,
\* a ratio switch and a watermark switch that are not the initial ones
C24_Witness ==
    /\ activeImageId = "tall"
    /\ editHistory = <<editState>>
    /\ editState.cropRect = Rect(I(0), I(0), I(600), I(1500))
    /\ settings.targetWidth = Null
    /\ settings.targetSizeMB = Null
    /\ settings.format = PNG
    /\ ~settings.maintainAspectRatio
    /\ settings.watermark.enabled

\* v is absent or a positive integer
AbsentOrPositive(v) == v = Null \/ (v.d = 1 /\ v.n > 0)

\* C27: after any sequence of inputs to the width and height fields,
\* toggles of maintainAspectRatio, resets and image switches, each of
\* targetWidth and targetHeight is either absent or a positive integer
C27_TargetDimensionsPositive ==
    /\ AbsentOrPositive(settings.targetWidth)
    /\ AbsentOrPositive(settings.targetHeight)

\* C30: when maintainAspectRatio is true and the user enters one
\* dimension, the other dimension that the settings panel derives equals
\* the one the export pipeline would derive from the same single
\* dimension, for every edit state
C30_PanelDerivesAsExport ==
    [][\A text \in DimensionTexts :
          LET num == ParseInt(text)
              canvas == BaseCanvas(editState, ImageOf(activeImageId))
          IN  (settings.maintainAspectRatio /\ num # NaN /\ Truthy(num))
                => /\ HandleDimensionChange("targetWidth", text)
                        => settings'.targetHeight
                             = I(DerivedHeight(num.n, canvas))
                   /\ HandleDimensionChange("targetHeight", text)
                        => settings'.targetWidth
                             = I(DerivedWidth(num.n, canvas))]_vars

\* a wheel event, a pinch move or a pan move of the pointer
ZoomOrPanEvent ==
    \/ \E up \in BOOLEAN : Wheel(up)
    \/ \E x \in PointerXs, distance \in PinchDistances \cup {I(10)} :
           TouchMovePinch(x, PointerDown.y, distance)
    \/ /\ panState.isPanning
       /\ \E x \in PointerXs :
              MouseMove(x, PointerDown.y) \/ TouchMoveSingle(x, PointerDown.y)

\* C26: interactive zoom is view-only: wheel, pinch and pan events change
\* only the view state and never the EditState, whose scale stays 1
C26_ZoomIsViewOnly ==
    [][ZoomOrPanEvent => (editState' = editState /\ editState'.scale = I(1))]_vars

\* C25: the screen-to-image delta mapping is the exact inverse of the
\* on-screen view transform: for every turn by a multiple of 90 degrees,
\* every combination of flips and every positive fitScale * userScale,
\* the view transform (flip, then turn, then scale) applied to the
\* image-space delta gives back the screen-space delta
C25_DeltaInvertsViewTransform ==
    activeImageId # NoImage =>
        \A dx \in PointerXs \cup {0}, dy \in PointerYs \cup {0} :
            ViewTransform(ScreenToImageDelta(dx, dy, editState, viewState),
                          editState, viewState)
              = [x |-> I(dx), y |-> I(dy)]

\* a drag under a quarter turn, a flip and a zoom level other than 1 has
\* resized the crop rectangle
C25_Witness ==
    /\ activeImageId # NoImage
    /\ editState.rotation \in {90, 270}
    /\ editState.flipX
    /\ viewState.userScale # I(1)
    /\ dragState.isDragging
    /\ editState.cropRect # dragState.startRect

\* C29: every export request eventually leaves the processing state: once
\* handleProcess has set isProcessing, it becomes false again, whether the
\* pipeline resolves with a blob or fails at any stage, provided the image
\* loading and encoding callbacks eventually fire
C29_ProcessingEnds == isProcessing ~> ~isProcessing

\* an export that failed (image load, base surface or encoder) has left
\* the processing state
C29_Witness ==
    /\ job.pc = "done"
    /\ job.settled = "rejected"
    /\ ~isProcessing

====
